---- MODULE Spec2Model ----
(***************************************************************************)
(* Weedr scan pipeline (src/app.py): reference-data loading, queue         *)
(* building, marketplace result parsing, the scan orchestrator and the     *)
(* POST /run trigger with its background worker threads.                   *)
(*                                                                         *)
(* Text is a sequence of ASCII codes, so that strip / lower / upper /      *)
(* split / join and the string order of sort_values are computed, not      *)
(* assumed.  An empty CSV cell is what pandas reads as NaN.                *)
(***************************************************************************)
EXTENDS Integers, Sequences, FiniteSets, Bags, TLC

VARIABLES State, threads, files, arg, ret

vars == <<State, threads, files, arg, ret>>

(***************************************************************************)
(* Bounds of the model.                                                    *)
(***************************************************************************)
\* threads that POST /run may spawn in one behaviour
MaxRuns == 2
\* distinct readings of datetime.now() at second resolution
MaxTime == 1
\* rows of a ratings table handed to build_queue in QueueSpec
MaxRows == 3
\* entries of a marketplace page handed to the parsers in SearchSpec
MaxEntries == 3
\* largest limit_items / per_site_results a request may carry in the pure specs
MaxLimit == 2

(***************************************************************************)
(* Python str helpers.                                                     *)
(***************************************************************************)
\* str.isspace for the characters of the model: space and tab
isspace(c) == c \in {32, 9}

lower_char(c) == IF c \in 65..90 THEN c + 32 ELSE c

upper_char(c) == IF c \in 97..122 THEN c - 32 ELSE c

\* str.lower()
lower(s) == [i \in 1..Len(s) |-> lower_char(s[i])]

\* str.upper()
upper(s) == [i \in 1..Len(s) |-> upper_char(s[i])]

RECURSIVE lstrip(_)
lstrip(s) == IF s # <<>> /\ isspace(Head(s)) THEN lstrip(Tail(s)) ELSE s

RECURSIVE rstrip(_)
rstrip(s) ==
    IF s # <<>> /\ isspace(s[Len(s)]) THEN rstrip(SubSeq(s, 1, Len(s) - 1)) ELSE s

\* str.strip()
strip(s) == rstrip(lstrip(s))

\* str.split(): the maximal runs of non-whitespace, in order
RECURSIVE split_from(_, _, _)
split_from(s, cur, toks) ==
    IF s = <<>>
    THEN IF cur = <<>> THEN toks ELSE Append(toks, cur)
    ELSE IF isspace(Head(s))
         THEN split_from(Tail(s), <<>>, IF cur = <<>> THEN toks ELSE Append(toks, cur))
         ELSE split_from(Tail(s), Append(cur, Head(s)), toks)

split(s) == split_from(s, <<>>, <<>>)

\* sep.join(toks)
RECURSIVE join(_, _)
join(sep, toks) ==
    IF toks = <<>> THEN <<>>
    ELSE IF Len(toks) = 1 THEN toks[1]
    ELSE toks[1] \o sep \o join(sep, Tail(toks))

\* str(x) of a CSV cell as pandas read it: an empty cell is NaN, and str(NaN)
\* is "nan"; any other cell is the text itself
str(x) == IF x = <<>> THEN <<110, 97, 110>> ELSE x

\* Python's order on str: code point by code point, a proper prefix first
RECURSIVE str_lt(_, _)
str_lt(a, b) ==
    IF b = <<>> THEN FALSE
    ELSE IF a = <<>> THEN TRUE
    ELSE IF Head(a) # Head(b) THEN Head(a) < Head(b)
    ELSE str_lt(Tail(a), Tail(b))

str_le(a, b) == a = b \/ str_lt(a, b)

(***************************************************************************)
(* Helpers of app.py.                                                      *)
(***************************************************************************)
\* def norm(s): " ".join(str(s).split()).strip().lower(), of a Python str s
\* (a caller holding a raw cell, which may be NaN, passes str(cell))
norm(s) == lower(strip(join(<<32>>, split(s))))

TruthyWords ==
    { <<121, 101, 115>>, <<121>>, <<116, 114, 117, 101>>, <<49>> }

\* def to_bool_yes_no(x): norm(x) in ("yes", "y", "true", "1"), of a raw cell x
to_bool_yes_no(x) == norm(str(x)) \in TruthyWords

\* the literal "scientific_name" a duplicated header row is compared with
HeaderText ==
    <<115, 99, 105, 101, 110, 116, 105, 102, 105, 99, 95, 110, 97, 109, 101>>

\* df[df["scientific_name"].astype(str).str.strip().str.lower() != "scientific_name"]
RECURSIVE drop_header_rows(_)
drop_header_rows(rows) ==
    IF rows = <<>> THEN <<>>
    ELSE (IF lower(strip(str(Head(rows).scientific_name))) # HeaderText
          THEN <<Head(rows)>> ELSE <<>>)
         \o drop_header_rows(Tail(rows))

\* load_lists, the ratings table: header rows dropped, cells normalised
load_ratings(raw) ==
    LET kept == drop_header_rows(raw)
    IN  [i \in 1..Len(kept) |->
            [scientific_name      |-> strip(str(kept[i].scientific_name)),
             common_name          |-> strip(str(kept[i].common_name)),
             rating               |-> upper(strip(str(kept[i].rating))),
             is_ccr_flag          |-> to_bool_yes_no(kept[i].is_ccr_flag),
             scientific_name_norm |-> norm(strip(str(kept[i].scientific_name)))]]

\* load_lists, the noxious set
load_ccr_set(raw) ==
    LET kept == drop_header_rows(raw)
    IN  {norm(str(kept[i].scientific_name)) : i \in 1..Len(kept)}

\* def load_lists() -> (ratings, ccr_set)
load_lists(f) == [ratings |-> load_ratings(f.ratings), ccr_set |-> load_ccr_set(f.ccr)]

(***************************************************************************)
(* Build Scan Queue.                                                       *)
(***************************************************************************)
RatingA == <<65>>
RatingB == <<66>>
RatingC == <<67>>

\* priority_map = {"A": 0, "B": 1, "C": 2}; .map(priority_map).fillna(3)
priority(rating) ==
    IF rating = RatingA THEN 0
    ELSE IF rating = RatingB THEN 1
    ELSE IF rating = RatingC THEN 2
    ELSE 3

\* key_le as it would be had the sort named the priority column alone
key_le_priority_only(r1, r2) == r1.priority <= r2.priority

\* the order sort_values(["priority", "scientific_name"]) sorts by
key_le(r1, r2) ==
    \/ r1.priority < r2.priority
    \/ /\ r1.priority = r2.priority
       /\ str_le(r1.scientific_name, r2.scientific_name)

\* r placed behind every row whose key is not greater: the sort is stable
RECURSIVE insert_row(_, _)
insert_row(sorted, r) ==
    IF sorted = <<>> THEN <<r>>
    ELSE IF key_le(Head(sorted), r)
         THEN <<Head(sorted)>> \o insert_row(Tail(sorted), r)
         ELSE <<r>> \o sorted

RECURSIVE sort_values(_)
sort_values(df) ==
    IF df = <<>> THEN <<>>
    ELSE insert_row(sort_values(SubSeq(df, 1, Len(df) - 1)), df[Len(df)])

\* DataFrame.head(n): the first n rows; for n < 0, all but the last -n rows
head(df, n) ==
    IF n >= 0
    THEN SubSeq(df, 1, IF n < Len(df) THEN n ELSE Len(df))
    ELSE SubSeq(df, 1, IF Len(df) + n > 0 THEN Len(df) + n ELSE 0)

\* the dict build_queue appends for one row
scan_target(row) ==
    LET sci == strip(row.scientific_name)
        com == strip(row.common_name)
    IN  [scientific_name     |-> sci,
         common_name         |-> com,
         rating              |-> upper(strip(row.rating)),
         is_ccr_from_ratings |-> row.is_ccr_flag,
         query               |-> strip(sci \o <<32>> \o com)]

\* def build_queue(ratings, limit_items)
build_queue(ratings, limit_items) ==
    LET df == [i \in 1..Len(ratings) |->
                  [scientific_name |-> ratings[i].scientific_name,
                   common_name     |-> ratings[i].common_name,
                   rating          |-> ratings[i].rating,
                   is_ccr_flag     |-> ratings[i].is_ccr_flag,
                   priority        |-> priority(ratings[i].rating)]]
        top == head(sort_values(df), limit_items)
    IN  [i \in 1..Len(top) |-> scan_target(top[i])]

(***************************************************************************)
(* Marketplace scrapers.  A response is what requests.get gives back: an   *)
(* exception, or a status code with the entries the selector finds in the  *)
(* page, in document order.                                                *)
(***************************************************************************)
ShopOnEbay == <<115, 104, 111, 112, 32, 111, 110, 32, 101, 98, 97, 121>>

HttpPrefix == <<104, 116, 116, 112>>

\* Tag.get_text(" ", strip=True) of an element holding one text node
get_text(text) == strip(text)

\* str.startswith
startswith(s, prefix) ==
    Len(s) >= Len(prefix) /\ SubSeq(s, 1, Len(prefix)) = prefix

\* the for loop of ebay_search over soup.select("li.s-item"), from entry k on
RECURSIVE ebay_loop(_, _, _, _)
ebay_loop(items, k, results, limit_results) ==
    IF k > Len(items) THEN results
    ELSE LET li == items[k] IN
         IF ~li.a \/ ~li.title_el
         THEN ebay_loop(items, k + 1, results, limit_results)
         ELSE LET title == get_text(li.title) IN
              IF title = <<>> \/ lower(title) = ShopOnEbay
              THEN ebay_loop(items, k + 1, results, limit_results)
              ELSE LET more == Append(results,
                                 [site  |-> "eBay",
                                  title |-> title,
                                  price |-> IF li.price_el THEN get_text(li.price) ELSE <<>>,
                                  url   |-> li.href])
                   IN  IF Len(more) >= limit_results
                       THEN more
                       ELSE ebay_loop(items, k + 1, more, limit_results)

\* the for loop of etsy_search over soup.select("a.listing-link, a.wt-text-link")
RECURSIVE etsy_loop(_, _, _, _)
etsy_loop(items, k, results, limit_results) ==
    IF k > Len(items) THEN results
    ELSE LET a == items[k]
             title == get_text(a.title)
         IN  IF ~startswith(a.href, HttpPrefix)
             THEN etsy_loop(items, k + 1, results, limit_results)
             ELSE IF title = <<>>
             THEN etsy_loop(items, k + 1, results, limit_results)
             ELSE LET more == Append(results,
                                [site |-> "Etsy", title |-> title,
                                 price |-> <<>>, url |-> a.href])
                  IN  IF Len(more) >= limit_results
                      THEN more
                      ELSE etsy_loop(items, k + 1, more, limit_results)

\* requests.get raising, or raise_for_status() on a non-success status
raises(resp) == resp.exc # "none" \/ resp.status >= 400

exception_of(resp) == IF resp.exc # "none" THEN resp.exc ELSE "HTTPError"

\* ebay_search as it would be had it raised on a page with no usable entry
ebay_search_empty_raises(resp, limit_results) ==
    IF raises(resp)
    THEN [raised |-> TRUE, exc |-> exception_of(resp), value |-> <<>>]
    ELSE IF ebay_loop(resp.items, 1, <<>>, limit_results) = <<>>
    THEN [raised |-> TRUE, exc |-> "ValueError", value |-> <<>>]
    ELSE [raised |-> FALSE, exc |-> "none",
          value |-> ebay_loop(resp.items, 1, <<>>, limit_results)]

\* def ebay_search(query, limit_results), given the response to its request
ebay_search(resp, limit_results) ==
    IF raises(resp)
    THEN [raised |-> TRUE, exc |-> exception_of(resp), value |-> <<>>]
    ELSE [raised |-> FALSE, exc |-> "none",
          value |-> ebay_loop(resp.items, 1, <<>>, limit_results)]

\* def etsy_search(query, limit_results), given the response to its request
etsy_search(resp, limit_results) ==
    IF raises(resp)
    THEN [raised |-> TRUE, exc |-> exception_of(resp), value |-> <<>>]
    ELSE [raised |-> FALSE, exc |-> "none",
          value |-> etsy_loop(resp.items, 1, <<>>, limit_results)]

(***************************************************************************)
(* FastAPI app: the process-wide run state and the worker threads.         *)
(***************************************************************************)
ENABLE_EBAY == TRUE
ENABLE_ETSY == FALSE

\* the marketplaces do_scan queries for one target, in the order of its ifs
EnabledSites ==
    (IF ENABLE_EBAY THEN <<"eBay">> ELSE <<>>) \o (IF ENABLE_ETSY THEN <<"Etsy">> ELSE <<>>)

\* STATE["error"] = None
NoError == [site |-> "none", query |-> <<>>, exc |-> "none"]

\* f"eBay search failed for '{query}': {repr(e)}" and its Etsy twin
search_failed(site, query, exc) == [site |-> site, query |-> query, exc |-> exc]

\* STATE["error"] = repr(e) of the worker's except clause
repr_error(exc) == [site |-> "worker", query |-> <<>>, exc |-> exc]

\* the progress texts: "", "Starting...", f"Scanning {total} species...",
\* f"[{i}/{total}] Searching: {query}", f"Done. Found {n} listings."
progress_text(kind, i, total, query) ==
    [kind |-> kind, i |-> i, total |-> total, query |-> query]

NoProgress == progress_text("", 0, 0, <<>>)
Starting == progress_text("Starting...", 0, 0, <<>>)
Scanning(total) == progress_text("Scanning", 0, total, <<>>)
Searching(i, total, query) == progress_text("Searching", i, total, query)
DoneFound(n) == progress_text("Done. Found", n, 0, <<>>)

\* STATE = {"running": False, "progress": "", "results": [], "error": None,
\*          "last_run_at": None}; last_run_at 0 stands for None
InitialState ==
    [running |-> FALSE, progress |-> NoProgress, results |-> <<>>,
     error |-> NoError, last_run_at |-> 0]

\* class RunRequest / class ScanConfig: the defaults of a bare POST /run
DefaultRequest == [limit_items |-> 10, per_site_results |-> 3]

\* a thread that POST /run has not created yet
NewThread ==
    [pc |-> "new", cfg |-> DefaultRequest, queue |-> <<>>, ccr_set |-> {},
     i |-> 0, site |-> 0, site_hits |-> <<>>, out |-> <<>>, calls |-> <<>>,
     exc |-> "none"]

Threads == 1..MaxRuns

\* is_ccr as it would be had the set lookup overwritten the record's flag
is_ccr_overwritten(item, ccr_set) == norm(item.scientific_name) \in ccr_set

\* is_ccr = bool(item["is_ccr_from_ratings"]) or (norm(sci) in ccr_set)
is_ccr(item, ccr_set) ==
    item.is_ccr_from_ratings \/ norm(item.scientific_name) \in ccr_set

\* the dict do_scan appends to out for one hit h of target item
result_row(item, ccr_set, h) ==
    [scientific_name |-> item.scientific_name,
     common_name     |-> item.common_name,
     rating          |-> item.rating,
     is_ccr          |-> is_ccr(item, ccr_set),
     site            |-> h.site,
     title           |-> h.title,
     price           |-> h.price,
     url             |-> h.url]

\* the marketplace client of a site
site_search(site, resp, limit_results) ==
    IF site = "eBay" THEN ebay_search(resp, limit_results)
    ELSE etsy_search(resp, limit_results)

(***************************************************************************)
(* The environment of a scan: the two CSV files on disk, the requests an   *)
(* operator posts, and what the marketplaces answer.                       *)
(***************************************************************************)
Cell_Ab == <<65, 98>>
Cell_B__a == <<66, 32, 32, 97>>
Cell_b_a == <<98, 32, 97>>
Cell_x == <<120>>
Cell_Yes == <<89, 101, 115>>
Cell_no == <<110, 111>>
Cell_a == <<97>>
Cell_b == <<98>>

raw_rating(sci, com, rating, flag) ==
    [scientific_name |-> sci, common_name |-> com, rating |-> rating,
     is_ccr_flag |-> flag]

raw_ccr(sci) == [scientific_name |-> sci]

\* the files a scan reads.  First pair: "Ab" is flagged in its own column
\* only, "B  a" is listed only in CCR4500.csv (as "b a", below a repeated
\* header row).  Second pair: one species, flagged nowhere, below a repeated
\* header row.
ScanFiles ==
    { [ratings |-> << raw_rating(Cell_B__a, Cell_x, Cell_b, Cell_no),
                      raw_rating(Cell_Ab, <<>>, Cell_a, Cell_Yes) >>,
       ccr     |-> << raw_ccr(HeaderText), raw_ccr(Cell_b_a) >>],
      [ratings |-> << raw_rating(HeaderText, Cell_x, Cell_x, Cell_x),
                      raw_rating(Cell_Ab, Cell_x, Cell_x, <<>>) >>,
       ccr     |-> << raw_ccr(Cell_b_a) >>] }

\* what pd.read_csv or a column lookup of load_lists can raise
LoadErrors == {"FileNotFoundError"}

\* the bodies of POST /run
Requests == {DefaultRequest}

Title_Seeds == <<83, 101, 101, 100, 115>>
Title_ShopOnEbay == <<83, 104, 111, 112, 32, 111, 110, 32, 101, 66, 97, 121>>
Title_Blank == <<32, 32>>
Title_Plant == <<32, 80, 108, 97, 110, 116>>
Url_1 == <<104, 116, 116, 112, 58, 49>>
Url_2 == <<104, 116, 116, 112, 58, 50>>
Url_Relative == <<47, 50>>
Price_5 == <<36, 53>>

\* one element the selector of a results page matches
entry(a, href, title_el, title, price_el, price) ==
    [a |-> a, href |-> href, title_el |-> title_el, title |-> title,
     price_el |-> price_el, price |-> price]

Entry_Seeds == entry(TRUE, Url_1, TRUE, Title_Seeds, TRUE, Price_5)
Entry_Plant == entry(TRUE, Url_2, TRUE, Title_Plant, FALSE, <<>>)
Entry_Placeholder == entry(TRUE, Url_1, TRUE, Title_ShopOnEbay, TRUE, Price_5)
Entry_Blank == entry(TRUE, Url_2, TRUE, Title_Blank, TRUE, Price_5)
Entry_NoLink == entry(FALSE, <<>>, TRUE, Title_Seeds, TRUE, Price_5)
Entry_NoTitle == entry(TRUE, Url_1, FALSE, <<>>, TRUE, Price_5)
Entry_Relative == entry(TRUE, Url_Relative, TRUE, Title_Seeds, FALSE, <<>>)

\* r = requests.get(...): an exception, or a status with the page's entries
response(exc, status, items) == [exc |-> exc, status |-> status, items |-> items]

Timeout == response("Timeout", 0, <<>>)
Unavailable == response("none", 503, <<>>)
Page(items) == response("none", 200, items)

\* the answers a marketplace gives during a scan, by number
ScanResponses ==
    << Timeout,
       Page(<<Entry_Placeholder>>),
       Page(<<Entry_Placeholder, Entry_Seeds, Entry_Plant>>) >>

(***************************************************************************)
(* POST /run and the worker thread, one action per write of STATE.         *)
(***************************************************************************)
pc(w) == threads[w].pc

\* def run(req): the guard, and threading.Thread(target=worker).start()
run(w, req) ==
    /\ ~State.running
    /\ pc(w) = "new"
    /\ \A v \in Threads : v < w => pc(v) # "new"
    /\ threads' = [threads EXCEPT ![w] = [NewThread EXCEPT !.pc = "p332", !.cfg = req]]
    /\ UNCHANGED <<State, files, arg, ret>>

\* def run(req): if STATE["running"]: return RedirectResponse
run_ignored ==
    /\ State.running
    /\ UNCHANGED vars

\* worker: STATE["running"] = True
worker_332(w) ==
    /\ pc(w) = "p332"
    /\ State' = [State EXCEPT !.running = TRUE]
    /\ threads' = [threads EXCEPT ![w].pc = "p333"]
    /\ UNCHANGED <<files, arg, ret>>

\* worker: STATE["error"] = None
worker_333(w) ==
    /\ pc(w) = "p333"
    /\ State' = [State EXCEPT !.error = NoError]
    /\ threads' = [threads EXCEPT ![w].pc = "p334"]
    /\ UNCHANGED <<files, arg, ret>>

\* worker: STATE["results"] = []
worker_334(w) ==
    /\ pc(w) = "p334"
    /\ State' = [State EXCEPT !.results = <<>>]
    /\ threads' = [threads EXCEPT ![w].pc = "p335"]
    /\ UNCHANGED <<files, arg, ret>>

\* worker: STATE["progress"] = "Starting..."
worker_335(w) ==
    /\ pc(w) = "p335"
    /\ State' = [State EXCEPT !.progress = Starting]
    /\ threads' = [threads EXCEPT ![w].pc = "p210"]
    /\ UNCHANGED <<files, arg, ret>>

\* do_scan, lines 210-216: load_lists and build_queue, which may raise, then
\* out = [], total = len(queue) and the first progress text
do_scan_210(w) ==
    /\ pc(w) = "p210"
    /\ \/ \E e \in LoadErrors :
            /\ threads' = [threads EXCEPT ![w].pc = "p342", ![w].exc = e]
            /\ UNCHANGED State
       \/ LET lists == load_lists(files)
              queue == build_queue(lists.ratings, threads[w].cfg.limit_items)
          IN  /\ threads' = [threads EXCEPT
                     ![w].pc = IF queue = <<>> THEN "p261" ELSE "p229",
                     ![w].queue = queue,
                     ![w].ccr_set = lists.ccr_set,
                     ![w].i = 1,
                     ![w].out = <<>>]
              /\ State' = [State EXCEPT !.progress = Scanning(Len(queue))]
    /\ UNCHANGED <<files, arg, ret>>

\* do_scan, line 229: the progress text of target i
do_scan_229(w) ==
    /\ pc(w) = "p229"
    /\ LET t == threads[w] IN
       /\ State' = [State EXCEPT
              !.progress = Searching(t.i, Len(t.queue), t.queue[t.i].query)]
       /\ threads' = [threads EXCEPT
              ![w].pc = "p233", ![w].site = 1, ![w].site_hits = <<>>]
    /\ UNCHANGED <<files, arg, ret>>

\* the rows do_scan appends for the hits of one target, lines 245-257
merge_rows(item, ccr_set, site_hits) ==
    [k \in 1..Len(site_hits) |-> result_row(item, ccr_set, site_hits[k])]

\* do_scan, lines 233-259: the call of the next enabled marketplace for
\* target i inside its try/except; after the last one, the hits are merged
\* into out, the thread sleeps and the loop moves on
do_scan_233(w) ==
    /\ pc(w) = "p233"
    /\ threads[w].site <= Len(EnabledSites)
    /\ \E answer \in 1..Len(ScanResponses) :
         LET t == threads[w]
             resp == ScanResponses[answer]
             item == t.queue[t.i]
             site == EnabledSites[t.site]
             r == site_search(site, resp, t.cfg.per_site_results)
             hits == IF r.raised THEN t.site_hits ELSE t.site_hits \o r.value
             call == [i |-> t.i, site |-> site, answer |-> answer]
         IN  /\ State' = IF r.raised
                         THEN [State EXCEPT !.error = search_failed(site, item.query, r.exc)]
                         ELSE State
             /\ threads' =
                  IF t.site < Len(EnabledSites)
                  THEN [threads EXCEPT
                          ![w].site = t.site + 1,
                          ![w].site_hits = hits,
                          ![w].calls = Append(t.calls, call)]
                  ELSE [threads EXCEPT
                          ![w].pc = IF t.i < Len(t.queue) THEN "p229" ELSE "p261",
                          ![w].i = t.i + 1,
                          ![w].site = 0,
                          ![w].site_hits = <<>>,
                          ![w].out = t.out \o merge_rows(item, t.ccr_set, hits),
                          ![w].calls = Append(t.calls, call)]
    /\ UNCHANGED <<files, arg, ret>>

\* do_scan, lines 261-262: the final progress text
do_scan_261(w) ==
    /\ pc(w) = "p261"
    /\ State' = [State EXCEPT !.progress = DoneFound(Len(threads[w].out))]
    /\ threads' = [threads EXCEPT ![w].pc = "p339"]
    /\ UNCHANGED <<files, arg, ret>>

\* worker: STATE["results"] = results; the frame of do_scan is gone
worker_339(w) ==
    /\ pc(w) = "p339"
    /\ State' = [State EXCEPT !.results = threads[w].out]
    /\ threads' = [threads EXCEPT ![w] = [NewThread EXCEPT !.pc = "p340"]]
    /\ UNCHANGED <<files, arg, ret>>

\* worker: STATE["last_run_at"] = datetime.now().strftime(...); the clock
\* does not run backwards
worker_340(w) ==
    /\ pc(w) = "p340"
    /\ \E now \in 1..MaxTime :
         /\ now >= State.last_run_at
         /\ State' = [State EXCEPT !.last_run_at = now]
    /\ threads' = [threads EXCEPT ![w].pc = "p344"]
    /\ UNCHANGED <<files, arg, ret>>

\* worker_342 as it would be had running been cleared at the end of the try
\* body instead of in a finally clause
worker_342_without_finally(w) ==
    /\ pc(w) = "p342"
    /\ State' = [State EXCEPT !.error = repr_error(threads[w].exc)]
    /\ threads' = [threads EXCEPT ![w] = [NewThread EXCEPT !.pc = "done"]]
    /\ UNCHANGED <<files, arg, ret>>

\* worker: except Exception as e: STATE["error"] = repr(e)
worker_342(w) ==
    /\ pc(w) = "p342"
    /\ State' = [State EXCEPT !.error = repr_error(threads[w].exc)]
    /\ threads' = [threads EXCEPT ![w] = [NewThread EXCEPT !.pc = "p344"]]
    /\ UNCHANGED <<files, arg, ret>>

\* worker: finally: STATE["running"] = False, and the thread ends
worker_344(w) ==
    /\ pc(w) = "p344"
    /\ State' = [State EXCEPT !.running = FALSE]
    /\ threads' = [threads EXCEPT ![w] = [NewThread EXCEPT !.pc = "done"]]
    /\ UNCHANGED <<files, arg, ret>>

\* one step of thread w
worker(w) ==
    \/ worker_332(w) \/ worker_333(w) \/ worker_334(w) \/ worker_335(w)
    \/ do_scan_210(w) \/ do_scan_229(w) \/ do_scan_233(w) \/ do_scan_261(w)
    \/ worker_339(w) \/ worker_340(w) \/ worker_342(w) \/ worker_344(w)

NoArg == [site |-> "none", resp |-> Timeout, ratings |-> <<>>, limit |-> 0]
NoRet == [called |-> FALSE, raised |-> FALSE, value |-> <<>>]

Init ==
    /\ State = InitialState
    /\ threads = [w \in Threads |-> NewThread]
    /\ files \in ScanFiles
    /\ arg = NoArg
    /\ ret = NoRet

Next ==
    \/ \E w \in Threads, req \in Requests : run(w, req)
    \/ run_ignored
    \/ \E w \in Threads : worker(w)

Spec == Init /\ [][Next]_vars

\* every started thread keeps being scheduled, and each of its steps ends:
\* the requests carry timeout=20 and the sleep is finite
LiveSpec == Spec /\ \A w \in Threads : WF_vars(worker(w))

(***************************************************************************)
(* build_queue on its own: every ratings file of up to MaxRows rows, every *)
(* limit_items from -MaxLimit to MaxLimit.                                 *)
(***************************************************************************)
Cell_HeaderMixed ==
    <<83, 99, 105, 101, 110, 116, 105, 102, 105, 99, 95, 78, 97, 109, 101, 32>>
Cell_A == <<65>>
Cell_C == <<67>>
Cell_spaceAb == <<32, 65, 98>>

RawRows ==
    { raw_rating(Cell_Ab, <<>>, Cell_a, Cell_Yes),
      raw_rating(Cell_B__a, Cell_x, Cell_b, Cell_no),
      raw_rating(Cell_b_a, Cell_x, Cell_A, <<>>),
      raw_rating(Cell_Ab, Cell_x, Cell_C, Cell_no),
      raw_rating(Cell_spaceAb, Cell_b, Cell_x, Cell_Yes),
      raw_rating(Cell_HeaderMixed, Cell_x, Cell_A, Cell_no) }

RawTables == UNION {[1..k -> RawRows] : k \in 0..MaxRows}

QueueInit ==
    /\ State = InitialState
    /\ threads = [w \in Threads |-> NewThread]
    /\ files \in {[ratings |-> t, ccr |-> <<>>] : t \in RawTables}
    /\ arg \in {[NoArg EXCEPT !.limit = n] : n \in (0 - MaxLimit)..MaxLimit}
    /\ ret = NoRet

\* queue = build_queue(ratings, cfg.limit_items) on the table load_lists read
call_build_queue ==
    /\ ~ret.called
    /\ ret' = [called |-> TRUE, raised |-> FALSE,
               value |-> build_queue(load_lists(files).ratings, arg.limit)]
    /\ UNCHANGED <<State, threads, files, arg>>

QueueNext == call_build_queue

QueueSpec == QueueInit /\ [][QueueNext]_vars

(***************************************************************************)
(* ebay_search and etsy_search on their own: every response with up to     *)
(* MaxEntries entries, every cap from 0 to MaxLimit.                       *)
(***************************************************************************)
Entries ==
    { Entry_Seeds, Entry_Plant, Entry_Placeholder, Entry_Blank, Entry_NoLink,
      Entry_NoTitle, Entry_Relative }

SearchResponses ==
    {Timeout, Unavailable}
        \cup {Page(p) : p \in UNION {[1..k -> Entries] : k \in 0..MaxEntries}}

SearchInit ==
    /\ State = InitialState
    /\ threads = [w \in Threads |-> NewThread]
    /\ files = [ratings |-> <<>>, ccr |-> <<>>]
    /\ arg \in {[site |-> site, resp |-> r, ratings |-> <<>>, limit |-> n] :
                  site \in {"eBay", "Etsy"}, r \in SearchResponses, n \in 0..MaxLimit}
    /\ ret = NoRet

returned(r) == [called |-> TRUE, raised |-> r.raised, value |-> r.value]

call_ebay_search ==
    /\ ~ret.called
    /\ arg.site = "eBay"
    /\ ret' = returned(ebay_search(arg.resp, arg.limit))
    /\ UNCHANGED <<State, threads, files, arg>>

call_etsy_search ==
    /\ ~ret.called
    /\ arg.site = "Etsy"
    /\ ret' = returned(etsy_search(arg.resp, arg.limit))
    /\ UNCHANGED <<State, threads, files, arg>>

SearchNext == call_ebay_search \/ call_etsy_search

SearchSpec == SearchInit /\ [][SearchNext]_vars

(***************************************************************************)
(* Properties.                                                             *)
(***************************************************************************)
\* a thread that has executed line 332 and has not ended
InScan(w) == pc(w) \notin {"new", "p332", "done"}

\* C1: at most one scan worker is ever active at a time: a start request
\* never leads to a second worker running beside the first.
C1_AtMostOneWorker ==
    Cardinality({w \in Threads : InScan(w)}) <= 1

\* C2: a marketplace client returns at most the requested cap of entries,
\* none with an empty title or the placeholder title "shop on ebay".
C2_CapAndTitles ==
    (ret.called /\ ~ret.raised) =>
        /\ Len(ret.value) <= arg.limit
        /\ \A k \in 1..Len(ret.value) :
              /\ ret.value[k].title # <<>>
              /\ lower(ret.value[k].title) # ShopOnEbay

SeverityRank(code) ==
    CASE code = <<65>> -> 0 [] code = <<66>> -> 1 [] code = <<67>> -> 2 [] OTHER -> 3

TargetLe(t1, t2) ==
    \/ SeverityRank(t1.rating) < SeverityRank(t2.rating)
    \/ /\ SeverityRank(t1.rating) = SeverityRank(t2.rating)
       /\ str_le(t1.scientific_name, t2.scientific_name)

\* the species data of a record or of a scan target
Species(x, flag) ==
    [scientific_name |-> x.scientific_name, common_name |-> x.common_name,
     rating |-> x.rating, flag |-> flag]

Count(seq, x) == Cardinality({i \in 1..Len(seq) : seq[i] = x})

\* q is the first entries of records in some ascending order of
\* (severity rank, scientific name)
SortedPrefix(q, records) ==
    LET got == [i \in 1..Len(q) |-> Species(q[i], q[i].is_ccr_from_ratings)]
        all == [i \in 1..Len(records) |-> Species(records[i], records[i].is_ccr_flag)]
    IN  /\ \A i, j \in 1..Len(q) : i < j => TargetLe(q[i], q[j])
        /\ \A i \in 1..Len(got) : Count(got, got[i]) <= Count(all, got[i])
        /\ \A i \in 1..Len(all) :
              Count(got, all[i]) < Count(all, all[i]) =>
                  \A j \in 1..Len(q) : TargetLe(q[j], all[i])

\* C3 as stated: for every table and every max item count, build_queue
\* returns at most that many targets, the first entries of the table sorted
\* by (severity rank, scientific name).
C3_AtMostLimitSortedPrefix ==
    ret.called =>
        /\ Len(ret.value) <= arg.limit
        /\ SortedPrefix(ret.value, load_lists(files).ratings)

\* C3 amended: for a max item count n >= 0 build_queue returns min(n, rows)
\* targets, so at most n; for n < 0 it returns all but the last -n; either
\* way the first entries of the table sorted by (severity rank, name).
C3_SortedPrefixOfHead ==
    ret.called =>
        LET n == arg.limit
            rows == Len(load_lists(files).ratings)
        IN  /\ n >= 0 => Len(ret.value) = (IF n < rows THEN n ELSE rows)
            /\ n >= 0 => Len(ret.value) <= n
            /\ n < 0 => Len(ret.value) = (IF rows + n > 0 THEN rows + n ELSE 0)
            /\ SortedPrefix(ret.value, load_lists(files).ratings)

\* a table that sorting reorders, with an unrecognised rating, cut by the limit
C3_Witness ==
    /\ ret.called
    /\ arg.limit >= 1
    /\ Len(ret.value) = arg.limit
    /\ Len(load_lists(files).ratings) > arg.limit
    /\ ret.value[1].scientific_name # load_lists(files).ratings[1].scientific_name
    /\ \E i \in 1..Len(load_lists(files).ratings) :
          SeverityRank(load_lists(files).ratings[i].rating) = 3

\* a logged call that got no page: a network error or a non-success status
Failed(c) ==
    \/ ScanResponses[c.answer].exc # "none"
    \/ ScanResponses[c.answer].status # 200

\* the rows the logged calls of a scan should have produced: per call, in
\* call order, each returned listing joined with its target
RECURSIVE ExpectedRows(_, _, _, _)
ExpectedRows(calls, queue, ccr_set, cap) ==
    IF calls = <<>> THEN <<>>
    ELSE LET c == [raised |-> Failed(Head(calls)),
                   i      |-> Head(calls).i,
                   value  |-> site_search(Head(calls).site,
                                          ScanResponses[Head(calls).answer], cap).value]
         IN
         (IF c.raised THEN <<>>
          ELSE [k \in 1..Len(c.value) |->
                  [scientific_name |-> queue[c.i].scientific_name,
                   common_name     |-> queue[c.i].common_name,
                   rating          |-> queue[c.i].rating,
                   is_ccr          |-> queue[c.i].is_ccr_from_ratings
                                          \/ norm(queue[c.i].scientific_name) \in ccr_set,
                   site            |-> c.value[k].site,
                   title           |-> c.value[k].title,
                   price           |-> c.value[k].price,
                   url             |-> c.value[k].url]])
         \o ExpectedRows(Tail(calls), queue, ccr_set, cap)

\* no thread is between Thread.start() and its end
Quiescent == \A w \in Threads : pc(w) \in {"new", "done"}

\* C4: what a scan stores as results is the concatenation, in target and
\* site order, of the listings its successful calls returned, joined with
\* the target; and once scans are over, a final "Found N listings." message
\* has N = the number of stored rows.
C4_ResultsAndCount ==
    /\ [][\A w \in Threads :
            (pc(w) = "p339" /\ threads'[w].pc = "p340") =>
                State'.results =
                    ExpectedRows(threads[w].calls, threads[w].queue, threads[w].ccr_set,
                                 threads[w].cfg.per_site_results)]_vars
    /\ []((Quiescent /\ State.progress.kind = "Done. Found") =>
            State.progress.i = Len(State.results))

\* every row of seq
Rows(seq) == {seq[k] : k \in 1..Len(seq)}

ProducedRows == Rows(State.results) \cup UNION {Rows(threads[w].out) : w \in Threads}

\* the Species Records and the Noxious Set of each pair of files
Loaded == [f \in ScanFiles |-> load_lists(f)]

SpeciesRecords == {Loaded[files].ratings[i] : i \in 1..Len(Loaded[files].ratings)}

NoxiousSet == Loaded[files].ccr_set

\* C5: every result row carries is_ccr = the species record's own flag OR
\* membership of its normalized scientific name in the Noxious Set.
C5_CombinedFlag ==
    \A r \in ProducedRows :
        /\ \E rec \in SpeciesRecords : rec.scientific_name = r.scientific_name
        /\ \A rec \in SpeciesRecords :
              rec.scientific_name = r.scientific_name =>
                  r.is_ccr = (rec.is_ccr_flag \/ rec.scientific_name_norm \in NoxiousSet)

\* stored rows of a species flagged by its record only and of one flagged by
\* the set only, under a different spelling
C5_Witness ==
    /\ \E r \in Rows(State.results), rec \in SpeciesRecords :
          /\ rec.scientific_name = r.scientific_name
          /\ r.is_ccr /\ rec.is_ccr_flag
          /\ rec.scientific_name_norm \notin NoxiousSet
    /\ \E r \in Rows(State.results), rec \in SpeciesRecords :
          /\ rec.scientific_name = r.scientific_name
          /\ r.is_ccr /\ ~rec.is_ccr_flag
          /\ rec.scientific_name_norm # rec.scientific_name

\* the calls a scan over queue makes: one per target and enabled site, in order
CallPlan(queue) ==
    [k \in 1..(Len(queue) * Len(EnabledSites)) |->
        [i    |-> ((k - 1) \div Len(EnabledSites)) + 1,
         site |-> EnabledSites[((k - 1) % Len(EnabledSites)) + 1]]]

LastFailure(calls) ==
    LET k == CHOOSE k \in 1..Len(calls) :
                 Failed(calls[k]) /\ \A m \in (k + 1)..Len(calls) : ~Failed(calls[m])
    IN  calls[k]

\* C6: a scan in which a marketplace call failed still made every call of
\* its queue exactly once, stores the listings of the calls that succeeded,
\* and leaves as run-state error the message of its most recent failure.
C6_FailureDoesNotAbort ==
    [][\A w \in Threads :
         (/\ pc(w) = "p339" /\ threads'[w].pc = "p340"
          /\ \E k \in 1..Len(threads[w].calls) : Failed(threads[w].calls[k])) =>
             LET t == threads[w] IN
             /\ [k \in 1..Len(t.calls) |-> [i |-> t.calls[k].i, site |-> t.calls[k].site]]
                    = CallPlan(t.queue)
             /\ State'.results =
                    ExpectedRows(t.calls, t.queue, t.ccr_set, t.cfg.per_site_results)
             /\ State'.error.site = LastFailure(t.calls).site
             /\ State'.error.query = t.queue[LastFailure(t.calls).i].query]_vars

\* C7: once an error escapes do_scan, the thread makes no marketplace call,
\* stores the error as the run-state error and goes to its finally clause;
\* a thread never ends without clearing running; and every thread that was
\* started ends, with running false at that moment.
C7_WorkerAlwaysClearsRunning ==
    /\ [][\A w \in Threads :
            /\ pc(w) = "p342" =>
                  /\ threads[w].calls = <<>>
                  /\ threads'[w].calls = <<>>
                  /\ threads'[w].pc \in {"p342", "p344"}
                  /\ threads'[w].pc = "p344" =>
                        State'.error = [site |-> "worker", query |-> <<>>,
                                        exc |-> threads[w].exc]
            /\ (pc(w) = "p344") => threads'[w].pc \in {"p344", "done"}
            /\ (pc(w) # "done" /\ threads'[w].pc = "done") => ~State'.running]_vars
    /\ \A w \in Threads :
          (pc(w) \notin {"new", "done"}) ~> (pc(w) = "done" /\ ~State.running)

\* a failed load has been recorded and the thread is at its finally clause
C7_Witness ==
    \E w \in Threads :
        /\ pc(w) = "p344"
        /\ State.error = [site |-> "worker", query |-> <<>>, exc |-> "FileNotFoundError"]
        /\ State.running

\* the entries of a page that are listings: linked, titled, and not the
\* marketplace's placeholder
Usable(site, items) ==
    {k \in 1..Len(items) :
        IF site = "eBay"
        THEN /\ items[k].a /\ items[k].title_el
             /\ strip(items[k].title) # <<>>
             /\ lower(strip(items[k].title)) # ShopOnEbay
        ELSE /\ strip(items[k].title) # <<>>
             /\ startswith(items[k].href, HttpPrefix)}

\* thread w makes a call whose response is a page with no usable entry
ZeroEntryCall(w) ==
    /\ pc(w) = "p233"
    /\ Len(threads'[w].calls) = Len(threads[w].calls) + 1
    /\ LET c == threads'[w].calls[Len(threads'[w].calls)]
       IN  /\ ~Failed(c)
           /\ Usable(c.site, ScanResponses[c.answer].items) = {}

\* C8 as stated: a call whose response parses to zero usable entries is
\* recorded as the latest error of Run State.
C8_ZeroEntriesRecorded ==
    [][\A w \in Threads :
         ZeroEntryCall(w) =>
             /\ State'.error # [site |-> "none", query |-> <<>>, exc |-> "none"]
             /\ State'.error.query = threads[w].queue[threads[w].i].query]_vars

\* C8 amended: a call whose response parses to zero usable entries is not
\* an error: Run State, its error included, is left as it was, no row is
\* added for it, and the scan goes on to the next site or target.
C8_ZeroEntriesNotAnError ==
    [][\A w \in Threads :
         ZeroEntryCall(w) =>
             /\ State' = State
             /\ threads'[w].site_hits = threads[w].site_hits
             /\ threads'[w].out = threads[w].out
             /\ \/ threads'[w].site = threads[w].site + 1
                \/ threads'[w].i = threads[w].i + 1]_vars

\* a scan went past a zero-entry call with no error recorded
C8_Witness ==
    \E w \in Threads :
        /\ pc(w) \in {"p229", "p261"}
        /\ \E k \in 1..Len(threads[w].calls) :
              /\ ~Failed(threads[w].calls[k])
              /\ ScanResponses[threads[w].calls[k].answer].items # <<>>
              /\ Usable(threads[w].calls[k].site,
                        ScanResponses[threads[w].calls[k].answer].items) = {}
        /\ State.error = [site |-> "none", query |-> <<>>, exc |-> "none"]

\* C9: once a worker has cleared running, Run State does not change until a
\* later start is accepted.  A thread accepted after the last clearing of
\* running either has not run yet (it is at line 332) or has set running
\* again; so with running false and no thread at line 332 no start has been
\* accepted since, and Run State must stay as it is.
C9_FrozenAfterScan ==
    [][(/\ ~State.running
        /\ \E w \in Threads : pc(w) = "done"
        /\ \A w \in Threads : pc(w) # "p332") => State' = State]_vars

\* C10: results only ever changes to empty or to the complete output of a
\* scan; a starting worker resets it to empty; and a scan that ends in a
\* whole-scan failure leaves results empty and last_run_at as it was.
C10_EmptyOrComplete ==
    [][/\ State'.results # State.results =>
            \/ State'.results = <<>>
            \/ \E w \in Threads :
                  /\ pc(w) = "p339" /\ threads'[w].pc = "p340"
                  /\ State'.results = threads[w].out
       /\ \A w \in Threads :
            /\ (pc(w) = "p334" /\ threads'[w].pc = "p335") => State'.results = <<>>
            /\ (pc(w) = "p342" /\ threads'[w].pc = "p344") =>
                  /\ State'.results = <<>>
                  /\ State'.last_run_at = State.last_run_at]_vars

====
